---- MODULE Spec2Model ----
(***************************************************************************)
(* State-machine model of scripts/main.py (BreakoutGame).                  *)
(*                                                                         *)
(* One step of the model is one call of BreakoutGame._update, the frame    *)
(* callback handed to pyxel.run.  The handlers of main.py are operators    *)
(* over a record g that holds the fields of the BreakoutGame object.       *)
(*                                                                         *)
(* ball.py, paddle.py and brick.py are not part of the sources at hand.    *)
(* Ball, Paddle and Brick are modelled from their description: the model   *)
(* keeps the fields main.py reads or writes.  The ball, the paddle and the *)
(* bricks are rectangles and a collision is an overlap of rectangles.  The *)
(* flight of the ball is not computed: the place a move takes the ball to  *)
(* is an input of the frame, drawn from sample positions (in the air, on   *)
(* each brick, across two bricks, on the paddle, below the lower edge).    *)
(*                                                                         *)
(* Units: positions in pixels, angles in degrees.  A velocity is a float   *)
(* rounded to 10^-17 pixel per frame; the launch velocities are tabulated  *)
(* as the floating-point arithmetic of _launch_ball gives them.            *)
(***************************************************************************)
EXTENDS Integers, Sequences, FiniteSets, TLC

VARIABLES
    current_game_state, \* GameState
    stats,              \* GameStats: [score, lives]
    current_stage,      \* 1-based stage counter
    bricks,             \* list of Brick
    stages,             \* stage table read from stages.json
    ball,               \* Ball: [x, y, speed_x, speed_y, out_of_bounds, trail]
    paddle,             \* Paddle: [x, y, w]
    angle,              \* launch indicator angle
    angle_direction,    \* +1 / -1
    angle_cycle_speed,  \* degrees per frame
    frame               \* history of the latest _update call (inputs, calls)

vars == <<current_game_state, stats, current_stage, bricks, stages, ball,
          paddle, angle, angle_direction, angle_cycle_speed, frame>>

(***************************************************************************)
(* Bounds of the model.                                                    *)
(***************************************************************************)
MaxStages == 2      \* longest stage table drawn
MaxBricks == 2      \* most bricks per stage drawn

(***************************************************************************)
(* Program constants.                                                      *)
(***************************************************************************)
WIDTH == 450
HEIGHT == 200
DEFAULT_SCORE == 0
DEFAULT_LIVES == 0
RESET_ANGLE == 0
RESET_ANGLE_DIRECTION == 1
RESET_ANGLE_CYCLE_SPEED == 2

\* Geometry of the classes outside main.py.
BALL_R == 2
PADDLE_W == 40
PADDLE_H == 8
PADDLE_Y == 180
BRICK_W == 32
BRICK_H == 16
TRAIL_CAP == 1

READY == "READY"
RUNNING == "RUNNING"
DROPPED == "DROPPED"
GAME_OVER == "GAME_OVER"
WIN == "WIN"
GameState == {READY, RUNNING, DROPPED, GAME_OVER, WIN}

(***************************************************************************)
(* Velocities.  A velocity is a pair <<hi, lo>> that stands for            *)
(* hi * 10^-8 + lo * 10^-17 pixel per frame, hi and lo of the same sign:   *)
(* a float rounded to 10^-17.                                              *)
(***************************************************************************)
ZERO_SPEED == <<0, 0>>
LAUNCH_SPEED == <<250000000, 0>>    \* 2.5 px/frame
GRAVITY == <<700000, 0>>            \* 0.007 px/frame^2

\* -v
Neg(v) == <<-v[1], -v[2]>>

\* math.cos(math.radians(a)) * 2.5 in floating point, a = 0, 2, .., 180
CosTimesSpeed ==
    <<
      <<250000000, 0>>, <<249847706, 754773924>>, <<249391012, 564956061>>,
      <<248630473, 842068334>>, <<247567017, 185392579>>, <<246201938, 253051988>>,
      <<244536900, 183451422>>, <<242573931, 568999113>>, <<240315423, 984579724>>,
      <<237764129, 73788366>>, <<234923155, 196477129>>, <<231795963, 641696856>>,
      <<228386364, 410650211>>, <<224698511, 574791748>>, <<220736898, 214731747>>,
      <<216506350, 946109682>>, <<212012024, 39106484>>, <<207259393, 138760384>>,
      <<202254248, 593736863>>, <<197002688, 401680470>>, <<191511110, 779744498>>,
      <<185786206, 369348550>>, <<179834950, 84662792>>, <<173664592, 614749314>>,
      <<167282651, 589714559>>, <<160696902, 421634835>>, <<153915368, 831414567>>,
      <<146946313, 73118295>>, <<139798225, 867686687>>, <<132479816, 58301214>>,
      <<125000000, 22>>, <<117367890, 696472710>>, <<109592786, 697269373>>,
      <<101684160, 768950060>>, <<93651648, 353977990>>, <<85505035, 831417209>>,
      <<77254248, 593736863>>, <<68909338, 954249788>>, <<60480473, 899916920>>,
      <<51977922, 704439861>>, <<43412044, 416732604>>, <<34793275, 240016364>>,
      <<26132115, 816913365>>, <<17439118, 436031309>>, <<8724874, 175625270>>,
      <<0, 15>>, <<-8724874, -175625238>>, <<-17439118, -436031331>>,
      <<-26132115, -816913387>>, <<-34793275, -240016341>>, <<-43412044, -416732576>>,
      <<-51977922, -704439838>>, <<-60480473, -899916942>>, <<-68909338, -954249766>>,
      <<-77254248, -593736841>>, <<-85505035, -831417175>>, <<-93651648, -353978012>>,
      <<-101684160, -768950060>>, <<-109592786, -697269373>>, <<-117367890, -696472732>>,
      <<-124999999, -999999956>>, <<-132479816, -58301192>>, <<-139798225, -867686665>>,
      <<-146946313, -73118251>>, <<-153915368, -831414567>>, <<-160696902, -421634835>>,
      <<-167282651, -589714559>>, <<-173664592, -614749336>>, <<-179834950, -84662792>>,
      <<-185786206, -369348506>>, <<-191511110, -779744476>>, <<-197002688, -401680470>>,
      <<-202254248, -593736818>>, <<-207259393, -138760384>>, <<-212012024, -39106484>>,
      <<-216506350, -946109682>>, <<-220736898, -214731747>>, <<-224698511, -574791748>>,
      <<-228386364, -410650167>>, <<-231795963, -641696812>>, <<-234923155, -196477085>>,
      <<-237764129, -73788366>>, <<-240315423, -984579724>>, <<-242573931, -568999113>>,
      <<-244536900, -183451422>>, <<-246201938, -253051988>>, <<-247567017, -185392579>>,
      <<-248630473, -842068334>>, <<-249391012, -564956061>>, <<-249847706, -754773924>>,
      <<-250000000, 0>>
    >>

\* -math.sin(math.radians(a)) * 2.5 in floating point, a = 0, 2, .., 180
NegSinTimesSpeed ==
    <<
      <<0, 0>>, <<-8724874, -175625243>>, <<-17439118, -436031326>>,
      <<-26132115, -816913370>>, <<-34793275, -240016358>>, <<-43412044, -416732581>>,
      <<-51977922, -704439838>>, <<-60480473, -899916931>>, <<-68909338, -954249788>>,
      <<-77254248, -593736852>>, <<-85505035, -831417175>>, <<-93651648, -353978001>>,
      <<-101684160, -768950060>>, <<-109592786, -697269351>>, <<-117367890, -696472710>>,
      <<-124999999, -999999978>>, <<-132479816, -58301214>>, <<-139798225, -867686732>>,
      <<-146946313, -73118295>>, <<-153915368, -831414567>>, <<-160696902, -421634813>>,
      <<-167282651, -589714559>>, <<-173664592, -614749314>>, <<-179834950, -84662770>>,
      <<-185786206, -369348550>>, <<-191511110, -779744498>>, <<-197002688, -401680492>>,
      <<-202254248, -593736863>>, <<-207259393, -138760428>>, <<-212012024, -39106484>>,
      <<-216506350, -946109638>>, <<-220736898, -214731703>>, <<-224698511, -574791748>>,
      <<-228386364, -410650211>>, <<-231795963, -641696856>>, <<-234923155, -196477085>>,
      <<-237764129, -73788366>>, <<-240315423, -984579724>>, <<-242573931, -568999113>>,
      <<-244536900, -183451378>>, <<-246201938, -253051988>>, <<-247567017, -185392579>>,
      <<-248630473, -842068334>>, <<-249391012, -564956061>>, <<-249847706, -754773924>>,
      <<-250000000, 0>>, <<-249847706, -754773924>>, <<-249391012, -564956061>>,
      <<-248630473, -842068334>>, <<-247567017, -185392579>>, <<-246201938, -253051988>>,
      <<-244536900, -183451422>>, <<-242573931, -568999113>>, <<-240315423, -984579724>>,
      <<-237764129, -73788411>>, <<-234923155, -196477129>>, <<-231795963, -641696856>>,
      <<-228386364, -410650211>>, <<-224698511, -574791748>>, <<-220736898, -214731703>>,
      <<-216506350, -946109682>>, <<-212012024, -39106528>>, <<-207259393, -138760428>>,
      <<-202254248, -593736863>>, <<-197002688, -401680492>>, <<-191511110, -779744498>>,
      <<-185786206, -369348550>>, <<-179834950, -84662770>>, <<-173664592, -614749291>>,
      <<-167282651, -589714582>>, <<-160696902, -421634880>>, <<-153915368, -831414590>>,
      <<-146946313, -73118318>>, <<-139798225, -867686732>>, <<-132479816, -58301214>>,
      <<-124999999, -999999978>>, <<-117367890, -696472665>>, <<-109592786, -697269329>>,
      <<-101684160, -768950105>>, <<-93651648, -353978056>>, <<-85505035, -831417220>>,
      <<-77254248, -593736874>>, <<-68909338, -954249799>>, <<-60480473, -899916931>>,
      <<-51977922, -704439827>>, <<-43412044, -416732570>>, <<-34793275, -240016330>>,
      <<-26132115, -816913432>>, <<-17439118, -436031381>>, <<-8724874, -175625286>>,
      <<0, -31>>
    >>

(***************************************************************************)
(* Stage tables (the content of stages.json).                              *)
(***************************************************************************)
\* the i-th brick record of stage s.  The bricks of a stage are a column
\* that stands on the lower edge of the playfield: the first brick lies
\* across the edge, the next ones on top of it.
BRICK_X == 100

BrickRecord(s, i) ==
    [x |-> BRICK_X, y |-> HEIGHT - (BRICK_H \div 2) - (i - 1) * BRICK_H,
     brick_type |-> s]

StageOf(s, n) == [bricks |-> [i \in 1..n |-> BrickRecord(s, i)]]

\* the table of the two-stage scenario: one brick, then none
ScenarioTable == <<StageOf(1, 1), StageOf(2, 0)>>

\* the tables drawn: up to MaxStages stages, each one empty or with MaxBricks
\* bricks, and the scenario table
StageTables ==
    UNION { { [s \in 1..n |-> StageOf(s, c[s])] :
                c \in [1..n -> {0, MaxBricks}] } : n \in 1..MaxStages }
    \cup {ScenarioTable}

\* Brick(x, y, brick_type)
Brick(x, y, brick_type) == [x |-> x, y |-> y, brick_type |-> brick_type]

\* the brick field of the 1-based stage s of the table t
StageBricks(t, s) ==
    [i \in 1..Len(t[s].bricks) |->
        Brick(t[s].bricks[i].x, t[s].bricks[i].y, t[s].bricks[i].brick_type)]

(***************************************************************************)
(* Sequence helpers.                                                       *)
(***************************************************************************)
\* del lst[i], i a 1-based position
DelAt(lst, i) == [k \in 1..(Len(lst) - 1) |-> IF k < i THEN lst[k] ELSE lst[k + 1]]

Max(S) == CHOOSE m \in S : \A k \in S : k <= m

(***************************************************************************)
(* Ball, Paddle (ball.py, paddle.py).                                      *)
(***************************************************************************)
\* Ball.clear_trails()
BallClearTrails(b) == [b EXCEPT !.trail = <<>>]

\* Ball.update(): gravity goes into the vertical velocity, the position
\* moves, the position is appended to the bounded trail, and the ball is
\* marked out of bounds once it is below the lower edge plus its radius.
\* mv is where the move takes the ball and how fast it then falls:
\* [x, y, speed_y].
BallUpdate(b, mv) ==
    LET t == Append(b.trail, <<mv.x, mv.y>>) IN
    [b EXCEPT !.speed_y = mv.speed_y,
              !.x = mv.x,
              !.y = mv.y,
              !.trail = IF Len(t) > TRAIL_CAP THEN Tail(t) ELSE t,
              !.out_of_bounds = IF mv.y > HEIGHT + BALL_R THEN TRUE ELSE @]

\* Ball.detect_collision(target): the bounding box of the ball, with its
\* top left corner at (x, y), overlaps the rectangle of the target
BallOverlaps(b, x, y, w, h) ==
    /\ b.x < x + w /\ x < b.x + 2 * BALL_R
    /\ b.y < y + h /\ y < b.y + 2 * BALL_R

\* Ball.detect_collision(target): on a hit the velocity component
\* perpendicular to the struck face is inverted.
BallReflect(b, axis) ==
    IF axis = "x" THEN [b EXCEPT !.speed_x = Neg(@)]
    ELSE [b EXCEPT !.speed_y = Neg(@)]

\* Paddle.update(): the paddle centre follows the pointer, clamped to the
\* playfield.
PaddleUpdate(p, mouse_x) ==
    LET x == mouse_x - (p.w \div 2) IN
    [p EXCEPT !.x = IF x < 0 THEN 0
                    ELSE IF x > WIDTH - p.w THEN WIDTH - p.w ELSE x]

\* sample pointer positions: the left and the right end of the playfield
MouseXs == {0, WIDTH}

\* sample positions of the moving ball
InBrick(i) == [x |-> BRICK_X + 8, y |-> BrickRecord(1, i).y + 4]
AcrossBricks(i) == [x |-> BRICK_X + 8, y |-> BrickRecord(1, i).y - 2]
InAir == [x |-> BRICK_X + 8, y |-> 20]
OnPaddle == [x |-> (PADDLE_W \div 2) - BALL_R, y |-> PADDLE_Y - 2]
BelowEdgeInBrick == [x |-> BRICK_X + 8, y |-> HEIGHT + BALL_R + 1]
BelowEdge == [x |-> BRICK_X - 40, y |-> HEIGHT + BALL_R + 1]

BallPositions ==
    {InBrick(i) : i \in 1..MaxBricks}
    \cup {AcrossBricks(i) : i \in 1..(MaxBricks - 1)}
    \cup {InAir, OnPaddle, BelowEdgeInBrick, BelowEdge}

\* the vertical speed after a move
FallSpeeds == {GRAVITY}

\* the moves of the ball b: the first move after a launch ends above the
\* lower edge
BallMoves(b) ==
    { mv \in [x : {p.x : p \in BallPositions}, y : {p.y : p \in BallPositions},
              speed_y : FallSpeeds] :
        /\ [x |-> mv.x, y |-> mv.y] \in BallPositions
        /\ b.trail = <<>> => mv.y <= HEIGHT + BALL_R }

(***************************************************************************)
(* History of one _update call.                                            *)
(***************************************************************************)
NoFrame ==
    [launch |-> FALSE, restart |-> FALSE, dispatched |-> "NONE",
     overlap |-> {}, tested |-> {}, removed |-> 0, oob_marked |-> FALSE,
     cleared |-> FALSE,
     loads |-> <<>>, error |-> FALSE]

(***************************************************************************)
(* Stage management.                                                       *)
(***************************************************************************)
\* self.stages[stage_index] of a Python list: 0-based, negative indices count
\* from the end, anything else raises IndexError.  0 stands for the error.
PyIndex(n, i) ==
    IF 0 <= i /\ i < n THEN i + 1
    ELSE IF -n <= i /\ i < 0 THEN n + i + 1
    ELSE 0

LoadStage(g, stage_index) ==
    LET k == PyIndex(Len(g.stages), stage_index)
        h == [g EXCEPT !.frame.loads = Append(@, stage_index)] IN
    IF k = 0 THEN [h EXCEPT !.frame.error = TRUE]
    ELSE LET stage == h.stages[k] IN
         [h EXCEPT !.bricks =
             [i \in 1..Len(stage.bricks) |->
                 Brick(stage.bricks[i].x, stage.bricks[i].y,
                       stage.bricks[i].brick_type)]]

ResetBall(g) ==
    [g EXCEPT !.ball = [BallClearTrails(@) EXCEPT
                            !.y = g.paddle.y - BALL_R * 2,
                            !.speed_x = ZERO_SPEED,
                            !.speed_y = ZERO_SPEED,
                            !.out_of_bounds = FALSE],
              !.angle = RESET_ANGLE,
              !.angle_direction = RESET_ANGLE_DIRECTION,
              !.angle_cycle_speed = RESET_ANGLE_CYCLE_SPEED]

\* NextStage with the 1-based counter passed to _load_stage
NextStage_OneBasedIndex(g) ==
    IF g.current_stage < Len(g.stages)
    THEN LET h == LoadStage([g EXCEPT !.current_stage = @ + 1],
                            g.current_stage + 1) IN
         IF h.frame.error THEN h
         ELSE [ResetBall(h) EXCEPT !.current_game_state = READY]
    ELSE [g EXCEPT !.current_game_state = WIN]

\* NextStage with <= in place of <
NextStage_PastLast(g) ==
    IF g.current_stage <= Len(g.stages)
    THEN LET h == LoadStage([g EXCEPT !.current_stage = @ + 1],
                            g.current_stage + 1 - 1) IN
         IF h.frame.error THEN h
         ELSE [ResetBall(h) EXCEPT !.current_game_state = READY]
    ELSE [g EXCEPT !.current_game_state = WIN]

\* NextStage that leaves the ball as it is
NextStage_NoReset(g) ==
    IF g.current_stage < Len(g.stages)
    THEN LET h == LoadStage([g EXCEPT !.current_stage = @ + 1],
                            g.current_stage + 1 - 1) IN
         IF h.frame.error THEN h
         ELSE [h EXCEPT !.current_game_state = READY]
    ELSE [g EXCEPT !.current_game_state = WIN]

NextStage(g) ==
    IF g.current_stage < Len(g.stages)
    THEN LET h == LoadStage([g EXCEPT !.current_stage = @ + 1],
                            g.current_stage + 1 - 1) IN
         IF h.frame.error THEN h
         ELSE [ResetBall(h) EXCEPT !.current_game_state = READY]
    ELSE [g EXCEPT !.current_game_state = WIN]

(***************************************************************************)
(* Helper methods.                                                         *)
(***************************************************************************)
\* StartNewGame without a fresh GameStats
StartNewGame_KeepsStats(g) ==
    LET h == LoadStage([g EXCEPT !.current_stage = 1], 1 - 1) IN
    IF h.frame.error THEN h
    ELSE [ResetBall(h) EXCEPT !.current_game_state = READY]

StartNewGame(g) ==
    LET h == LoadStage([g EXCEPT !.stats = [score |-> DEFAULT_SCORE,
                                            lives |-> DEFAULT_LIVES],
                                 !.current_stage = 1],
                       1 - 1) IN
    IF h.frame.error THEN h
    ELSE [ResetBall(h) EXCEPT !.current_game_state = READY]

\* LaunchBall without the minus sign of the vertical component
LaunchBall_PlusSin(g) ==
    [g EXCEPT !.ball.speed_x = CosTimesSpeed[(g.angle \div 2) + 1],
              !.ball.speed_y = Neg(NegSinTimesSpeed[(g.angle \div 2) + 1]),
              !.current_game_state = RUNNING]

LaunchBall(g) ==
    [g EXCEPT !.ball.speed_x = CosTimesSpeed[(g.angle \div 2) + 1],
              !.ball.speed_y = NegSinTimesSpeed[(g.angle \div 2) + 1],
              !.current_game_state = RUNNING]

\* the bricks detect_collision is true for, by position in the list
Overlapped(g) ==
    {i \in 1..Len(g.bricks) :
        BallOverlaps(g.ball, g.bricks[i].x, g.bricks[i].y, BRICK_W, BRICK_H)}

\* FirstHit for a scan from the front of the list
FirstHit_Forward(g) ==
    IF Overlapped(g) = {} THEN 0
    ELSE CHOOSE m \in Overlapped(g) : \A k \in Overlapped(g) : m <= k

\* The brick the reversed scan deletes: the first index, from the end of the
\* list, whose detect_collision is true; 0 when there is none.
FirstHit(g) ==
    IF Overlapped(g) = {} THEN 0 ELSE Max(Overlapped(g))

\* CheckCollision without the break: every brick the ball overlaps is deleted
CheckCollision_NoBreak(g, axis) ==
    LET paddle_hit == BallOverlaps(g.ball, g.paddle.x, g.paddle.y,
                                   g.paddle.w, PADDLE_H)
        g1 == IF paddle_hit THEN [g EXCEPT !.ball = BallReflect(@, "y")] ELSE g
        n == Len(g1.bricks)
        i == FirstHit(g1)
        keep == {k \in 1..n : k \notin Overlapped(g1)}
        kept(j) == CHOOSE k \in keep : Cardinality({l \in keep : l < k}) = j - 1
        g2 == [g1 EXCEPT !.frame.overlap = Overlapped(g1)]
    IN
    IF i = 0 THEN [g2 EXCEPT !.frame.tested = 1..n]
    ELSE [g2 EXCEPT !.ball = BallReflect(@, axis),
                    !.bricks = [j \in 1..Cardinality(keep) |-> g1.bricks[kept(j)]],
                    !.frame.tested = 1..n,
                    !.frame.removed = i]

\* axis: the face of the brick that is struck
CheckCollision(g, axis) ==
    LET paddle_hit == BallOverlaps(g.ball, g.paddle.x, g.paddle.y,
                                   g.paddle.w, PADDLE_H)
        g1 == IF paddle_hit THEN [g EXCEPT !.ball = BallReflect(@, "y")] ELSE g
        n == Len(g1.bricks)
        i == FirstHit(g1)
        g2 == [g1 EXCEPT !.frame.overlap = Overlapped(g1)] IN
    IF i = 0 THEN [g2 EXCEPT !.frame.tested = 1..n]
    ELSE [g2 EXCEPT !.ball = BallReflect(@, axis),
                    !.bricks = DelAt(@, i),
                    !.frame.tested = i..n,
                    !.frame.removed = i]

\* CheckInput that takes the launch key in every state
CheckInput_LaunchAnywhere(g, launch, restart) ==
    LET g1 == IF launch THEN LaunchBall(g) ELSE g IN
    IF g1.current_game_state \in {GAME_OVER, WIN} /\ restart
    THEN StartNewGame(g1)
    ELSE g1

CheckInput(g, launch, restart) ==
    LET g1 == IF g.current_game_state = READY /\ launch THEN LaunchBall(g)
              ELSE g IN
    IF g1.current_game_state \in {GAME_OVER, WIN} /\ restart
    THEN StartNewGame(g1)
    ELSE g1

(***************************************************************************)
(* Update methods.                                                         *)
(***************************************************************************)
\* UpdateReady that reverses the direction only at 0
UpdateReady_NoUpperFlip(g) ==
    LET a == g.angle + g.angle_direction * g.angle_cycle_speed IN
    [g EXCEPT !.ball.x = g.paddle.x + (g.paddle.w \div 2) - BALL_R,
              !.angle = a,
              !.angle_direction = IF a = 0 THEN -@ ELSE @]

\* UpdateReady that tests the angle before it is moved
UpdateReady_FlipOnOld(g) ==
    LET a == g.angle + g.angle_direction * g.angle_cycle_speed IN
    [g EXCEPT !.ball.x = g.paddle.x + (g.paddle.w \div 2) - BALL_R,
              !.angle = a,
              !.angle_direction = IF g.angle = 180 \/ g.angle = 0 THEN -@ ELSE @]

UpdateReady(g) ==
    LET a == g.angle + g.angle_direction * g.angle_cycle_speed IN
    [g EXCEPT !.ball.x = g.paddle.x + (g.paddle.w \div 2) - BALL_R,
              !.angle = a,
              !.angle_direction = IF a = 180 \/ a = 0 THEN -@ ELSE @]

\* UpdateRunning with the out-of-bounds test as the else of the cleared test
UpdateRunning_Elif(g, mv, axis) ==
    LET g1 == [g EXCEPT !.ball = BallUpdate(@, mv)]
        g2 == [g1 EXCEPT !.frame.oob_marked = g1.ball.out_of_bounds]
        g3 == CheckCollision(g2, axis)
        g4 == [g3 EXCEPT !.frame.cleared = (g3.bricks = <<>>)] IN
    IF g4.bricks = <<>>
    THEN IF g4.current_stage = Len(g4.stages)
         THEN [g4 EXCEPT !.current_game_state = WIN]
         ELSE NextStage(g4)
    ELSE IF g4.ball.out_of_bounds
         THEN [g4 EXCEPT !.current_game_state = DROPPED]
         ELSE g4

\* UpdateRunning that looks for a cleared field only after a brick was hit
UpdateRunning_ClearOnHit(g, mv, axis) ==
    LET g1 == [g EXCEPT !.ball = BallUpdate(@, mv)]
        g2 == [g1 EXCEPT !.frame.oob_marked = g1.ball.out_of_bounds]
        g3 == CheckCollision(g2, axis)
        g4 == [g3 EXCEPT !.frame.cleared = (g3.bricks = <<>>)]
        g5 == IF g4.bricks = <<>> /\ g4.frame.removed # 0
              THEN IF g4.current_stage = Len(g4.stages)
                   THEN [g4 EXCEPT !.current_game_state = WIN]
                   ELSE NextStage(g4)
              ELSE g4 IN
    IF g5.frame.error THEN g5
    ELSE IF g5.ball.out_of_bounds
         THEN [g5 EXCEPT !.current_game_state = DROPPED]
         ELSE g5

\* UpdateRunning that sets WIN for a cleared field at any stage
UpdateRunning_WinAnyStage(g, mv, axis) ==
    LET g1 == [g EXCEPT !.ball = BallUpdate(@, mv)]
        g2 == [g1 EXCEPT !.frame.oob_marked = g1.ball.out_of_bounds]
        g3 == CheckCollision(g2, axis)
        g4 == [g3 EXCEPT !.frame.cleared = (g3.bricks = <<>>)]
        g5 == IF g4.bricks = <<>>
              THEN [g4 EXCEPT !.current_game_state = WIN]
              ELSE g4 IN
    IF g5.frame.error THEN g5
    ELSE IF g5.ball.out_of_bounds
         THEN [g5 EXCEPT !.current_game_state = DROPPED]
         ELSE g5

\* mv: where the move takes the ball; axis: the face of a brick it strikes
UpdateRunning(g, mv, axis) ==
    LET g1 == [g EXCEPT !.ball = BallUpdate(@, mv)]
        g2 == [g1 EXCEPT !.frame.oob_marked = g1.ball.out_of_bounds]
        g3 == CheckCollision(g2, axis)
        g4 == [g3 EXCEPT !.frame.cleared = (g3.bricks = <<>>)]
        g5 == IF g4.bricks = <<>>
              THEN IF g4.current_stage = Len(g4.stages)
                   THEN [g4 EXCEPT !.current_game_state = WIN]
                   ELSE NextStage(g4)
              ELSE g4 IN
    IF g5.frame.error THEN g5
    ELSE IF g5.ball.out_of_bounds
         THEN [g5 EXCEPT !.current_game_state = DROPPED]
         ELSE g5

\* UpdateDropped with the branches of the lives test swapped
UpdateDropped_Swapped(g) ==
    LET g1 == [g EXCEPT !.stats.lives = @ - 1] IN
    IF g1.stats.lives > 0
    THEN [g1 EXCEPT !.current_game_state = GAME_OVER]
    ELSE [ResetBall(g1) EXCEPT !.current_game_state = READY]

\* UpdateDropped that loads the bricks of the stage again
UpdateDropped_ReloadsStage(g) ==
    LET g1 == LoadStage([g EXCEPT !.stats.lives = @ - 1],
                        g.current_stage - 1) IN
    IF g1.stats.lives > 0
    THEN [ResetBall(g1) EXCEPT !.current_game_state = READY]
    ELSE [g1 EXCEPT !.current_game_state = GAME_OVER]

UpdateDropped(g) ==
    LET g1 == [g EXCEPT !.stats.lives = @ - 1] IN
    IF g1.stats.lives > 0
    THEN [ResetBall(g1) EXCEPT !.current_game_state = READY]
    ELSE [g1 EXCEPT !.current_game_state = GAME_OVER]

\* Update that dispatches on the state the frame started in
Update_DispatchOnEntry(g, in) ==
    LET g0 == [g EXCEPT !.frame = [NoFrame EXCEPT !.launch = in.launch,
                                                 !.restart = in.restart]]
        g1 == CheckInput(g0, in.launch, in.restart) IN
    IF g1.frame.error THEN g1
    ELSE
    LET g2 == [g1 EXCEPT !.paddle = PaddleUpdate(@, in.mouse_x),
                         !.frame.dispatched = g.current_game_state] IN
    CASE g.current_game_state = READY -> UpdateReady(g2)
      [] g.current_game_state = RUNNING ->
            UpdateRunning(g2, in.mv, in.axis)
      [] g.current_game_state = DROPPED -> UpdateDropped(g2)
      [] g.current_game_state = GAME_OVER -> g2
      [] g.current_game_state = WIN -> g2

\* in: the inputs of the frame
\*   launch, restart : pyxel.btnp of the launch keys / of the return key
\*   mouse_x         : the pointer
\*   mv, axis        : where the ball moves to and the face of the brick it
\*                     strikes, if the frame moves the ball
Update(g, in) ==
    LET g0 == [g EXCEPT !.frame = [NoFrame EXCEPT !.launch = in.launch,
                                                 !.restart = in.restart]]
        g1 == CheckInput(g0, in.launch, in.restart) IN
    IF g1.frame.error THEN g1
    ELSE
    LET g2 == [g1 EXCEPT !.paddle = PaddleUpdate(@, in.mouse_x),
                         !.frame.dispatched = g1.current_game_state] IN
    CASE g2.current_game_state = READY -> UpdateReady(g2)
      [] g2.current_game_state = RUNNING ->
            UpdateRunning(g2, in.mv, in.axis)
      [] g2.current_game_state = DROPPED -> UpdateDropped(g2)
      [] g2.current_game_state = GAME_OVER -> g2
      [] g2.current_game_state = WIN -> g2

(***************************************************************************)
(* The game object as a record, and the specification.                     *)
(***************************************************************************)
Self ==
    [current_game_state |-> current_game_state, stats |-> stats,
     current_stage |-> current_stage, bricks |-> bricks, stages |-> stages,
     ball |-> ball, paddle |-> paddle, angle |-> angle,
     angle_direction |-> angle_direction,
     angle_cycle_speed |-> angle_cycle_speed, frame |-> frame]

\* the variables take the fields of g
Becomes(g) ==
    /\ current_game_state' = g.current_game_state
    /\ stats' = g.stats
    /\ current_stage' = g.current_stage
    /\ bricks' = g.bricks
    /\ stages' = g.stages
    /\ ball' = g.ball
    /\ paddle' = g.paddle
    /\ angle' = g.angle
    /\ angle_direction' = g.angle_direction
    /\ angle_cycle_speed' = g.angle_cycle_speed
    /\ frame' = g.frame

Is(g) ==
    /\ current_game_state = g.current_game_state
    /\ stats = g.stats
    /\ current_stage = g.current_stage
    /\ bricks = g.bricks
    /\ stages = g.stages
    /\ ball = g.ball
    /\ paddle = g.paddle
    /\ angle = g.angle
    /\ angle_direction = g.angle_direction
    /\ angle_cycle_speed = g.angle_cycle_speed
    /\ frame = g.frame

\* BreakoutGame.__init__ up to pyxel.run, for the stage table t.  Paddle()
\* starts at the left end and Ball() on the centre of the paddle;
\* _reset_ball does not set ball.x.
Constructed(t) ==
    StartNewGame(
        ResetBall(
            [current_game_state |-> READY,
             stats |-> [score |-> DEFAULT_SCORE, lives |-> DEFAULT_LIVES],
             current_stage |-> 1,
             bricks |-> <<>>,
             stages |-> t,
             ball |-> [x |-> (PADDLE_W \div 2) - BALL_R, y |-> 0,
                       speed_x |-> ZERO_SPEED, speed_y |-> ZERO_SPEED,
                       out_of_bounds |-> FALSE, trail |-> <<>>],
             paddle |-> [x |-> 0, y |-> PADDLE_Y, w |-> PADDLE_W],
             angle |-> 0,
             angle_direction |-> 0,
             angle_cycle_speed |-> 0,
             frame |-> NoFrame]))

Init == \E t \in StageTables : Is([Constructed(t) EXCEPT !.frame = NoFrame])

\* the moves of the ball of g; the struck face is drawn only when the move
\* ends on a brick
BallInputs(g) ==
    { in \in [mv : BallMoves(g.ball), axis : {"x", "y"}] :
        Overlapped([g EXCEPT !.ball = BallUpdate(@, in.mv)]) = {}
            => in.axis = "y" }

NoBallInput == [mv |-> [x |-> 0, y |-> 0, speed_y |-> ZERO_SPEED], axis |-> "y"]

Inputs(launch, restart, mouse_x, b) ==
    [launch |-> launch, restart |-> restart, mouse_x |-> mouse_x,
     mv |-> b.mv, axis |-> b.axis]

\* One frame is one call of _update by pyxel.  The frames are told apart by
\* the state they start in and by the key pressed; a key that the state of
\* the frame does not read is taken as not pressed.

\* READY, no launch key: the indicator moves on
ReadyFrame ==
    /\ current_game_state = READY
    /\ \E m \in MouseXs :
          Becomes(Update(Self, Inputs(FALSE, FALSE, m, NoBallInput)))

\* the indicator angles at which the launch key is pressed: the first frame
\* after a reset, the next one, straight up, and both ends of the sweep
LaunchAngles == {0, 2, 90, 178, 180}

\* READY, launch key pressed: the ball is launched and moves
LaunchFrame ==
    /\ current_game_state = READY
    /\ angle \in LaunchAngles
    /\ \E m \in MouseXs, b \in BallInputs(Self) :
          Becomes(Update(Self, Inputs(TRUE, FALSE, m, b)))

RunningFrame ==
    /\ current_game_state = RUNNING
    /\ \E m \in MouseXs, b \in BallInputs(Self) :
          Becomes(Update(Self, Inputs(FALSE, FALSE, m, b)))

DroppedFrame ==
    /\ current_game_state = DROPPED
    /\ \E m \in MouseXs :
          Becomes(Update(Self, Inputs(FALSE, FALSE, m, NoBallInput)))

\* GAME_OVER or WIN, return key not pressed
TerminalFrame ==
    /\ current_game_state \in {GAME_OVER, WIN}
    /\ \E l \in BOOLEAN, m \in MouseXs :
          Becomes(Update(Self, Inputs(l, FALSE, m, NoBallInput)))

\* GAME_OVER or WIN, return key pressed
RestartFrame ==
    /\ current_game_state \in {GAME_OVER, WIN}
    /\ \E l \in BOOLEAN, m \in MouseXs :
          Becomes(Update(Self, Inputs(l, TRUE, m, NoBallInput)))

Next ==
    \/ ReadyFrame
    \/ LaunchFrame
    \/ RunningFrame
    \/ DroppedFrame
    \/ TerminalFrame
    \/ RestartFrame

Spec == Init /\ [][Next]_vars

(***************************************************************************)
(* The game left in READY: pyxel calls _update every frame and the launch  *)
(* key is never pressed.                                                   *)
(***************************************************************************)
SpecReady == Init /\ [][ReadyFrame]_vars /\ WF_vars(ReadyFrame)

(***************************************************************************)
(* _next_stage called on its own: from any stage of any table, with any    *)
(* part of the stage's bricks left and the ball in flight, _next_stage is  *)
(* called again and again.                                                 *)
(***************************************************************************)
InitNextStage ==
    \E t \in StageTables, m \in MouseXs, a \in {0, 90, 180} :
       \E s \in 1..Len(t) :
          \E k \in 0..Len(t[s].bricks) :
             LET g0 == Constructed(t)
                 g1 == [g0 EXCEPT !.frame = NoFrame,
                                  !.paddle = PaddleUpdate(@, m),
                                  !.angle = a,
                                  !.current_stage = s,
                                  !.bricks = SubSeq(StageBricks(t, s), 1, k)]
                 g2 == [LaunchBall(g1) EXCEPT
                           !.ball = BallUpdate(@, [x |-> InAir.x, y |-> InAir.y,
                                                   speed_y |-> GRAVITY])]
             IN Is(g2)

CallNextStage ==
    /\ ~frame.error
    /\ Becomes(NextStage(Self))

SpecNextStage == InitNextStage /\ [][CallNextStage]_vars

(***************************************************************************)
(* _launch_ball called on its own: the game waits in READY with the        *)
(* indicator at any angle of the sweep, in either direction, the ball on   *)
(* the paddle centre, and the ball is launched.                            *)
(***************************************************************************)
SweepAngles == {a \in 0..180 : a % 2 = 0}

InitLaunch ==
    \E t \in StageTables, m \in MouseXs, a \in SweepAngles, d \in {-1, 1} :
       /\ a = 0 => d = 1
       /\ a = 180 => d = -1
       /\ LET g0 == Constructed(t)
              g1 == [g0 EXCEPT !.frame = NoFrame,
                               !.paddle = PaddleUpdate(@, m)]
              g2 == [g1 EXCEPT
                        !.ball.x = g1.paddle.x + (g1.paddle.w \div 2) - BALL_R,
                        !.angle = a,
                        !.angle_direction = d]
          IN Is(g2)

CallLaunchBall ==
    /\ current_game_state = READY
    /\ Becomes(LaunchBall(Self))

SpecLaunch == InitLaunch /\ [][CallLaunchBall]_vars

(***************************************************************************)
(* Properties.                                                             *)
(***************************************************************************)
\* the ball as _reset_ball leaves it
BallIsReset ==
    /\ ball.speed_x = ZERO_SPEED
    /\ ball.speed_y = ZERO_SPEED
    /\ ball.out_of_bounds = FALSE
    /\ ball.trail = <<>>
    /\ ball.y = paddle.y - BALL_R * 2

C2_StatsNonNegative == stats.score >= 0 /\ stats.lives >= 0

\* C3: the stage counter stays within 1..N, every _load_stage call gets an
\* index in 0..N-1 and succeeds, and a frame that clears the last stage
\* changes the game state and leaves the stage counter alone.
C3_StageInRange ==
    /\ 1 <= current_stage /\ current_stage <= Len(stages)
    /\ \A k \in 1..Len(frame.loads) :
          0 <= frame.loads[k] /\ frame.loads[k] <= Len(stages) - 1
    /\ ~frame.error

C3_LastStageClear ==
    (frame'.cleared /\ current_stage = Len(stages)) =>
        /\ current_stage' = current_stage
        /\ frame'.loads = <<>>
        /\ current_game_state' # current_game_state
        /\ current_game_state' \in {WIN, DROPPED}

C3_StageIndexInBounds == []C3_StageInRange /\ [][C3_LastStageClear]_vars

\* the last stage of a table of two has been cleared, after a stage advance
C3_Witness ==
    /\ frame.cleared
    /\ Len(stages) = MaxStages
    /\ current_stage = Len(stages)
    /\ current_game_state = WIN

\* C4: _next_stage below the last stage adds 1 to the stage counter, loads
\* the bricks of the new stage, resets the ball and sets READY; at the last
\* stage it sets WIN and leaves the counter and the bricks alone, and calling
\* it again there gives the same result.
C4_NextStageStep ==
    /\ current_stage < Len(stages) =>
          /\ current_stage' = current_stage + 1
          /\ bricks' = StageBricks(stages, current_stage + 1)
          /\ BallIsReset'
          /\ current_game_state' = READY
    /\ current_stage = Len(stages) =>
          /\ current_game_state' = WIN
          /\ current_stage' = current_stage
          /\ bricks' = bricks
          /\ NextStage(NextStage(Self)) = NextStage(Self)
          /\ NextStage(Self).current_stage = Len(stages)

C4_NextStage == [][C4_NextStageStep]_vars

\* _next_stage has advanced to the last stage and has been called there
\* again: WIN with the bricks of the last stage still in the field
C4_Witness ==
    /\ current_game_state = WIN
    /\ current_stage = Len(stages)
    /\ frame.loads # <<>>
    /\ bricks # <<>>

\* C5: a RUNNING frame that leaves the brick field empty after collision
\* resolution ends in WIN at the last stage, and otherwise one stage further
\* with that stage's bricks and in READY, whatever the out-of-bounds flag.
C5_ClearedStep ==
    (frame'.dispatched = RUNNING /\ frame'.cleared) =>
        IF current_stage = Len(stages)
        THEN current_game_state' = WIN
        ELSE /\ current_stage' = current_stage + 1
             /\ bricks' = StageBricks(stages, current_stage + 1)
             /\ current_game_state' = READY

C5_ClearedAdvancesOrWins == [][C5_ClearedStep]_vars

\* C6 as stated: a RUNNING frame in which the ball is marked out of bounds
\* ends in DROPPED, whether or not the brick field was cleared in that frame.
C6_OutOfBoundsAlwaysDrops ==
    (frame.dispatched = RUNNING /\ frame.oob_marked) =>
        current_game_state = DROPPED

\* C6: a RUNNING frame in which the ball is marked out of bounds ends in
\* DROPPED, and the next frame takes a life, unless the frame also cleared
\* the brick field of a stage that is not the last: then the ball is reset
\* with the next stage, the frame ends in READY and no life is lost.
C6_OutOfBoundsStep ==
    /\ (frame'.dispatched = RUNNING /\ frame'.oob_marked) =>
          IF frame'.cleared /\ current_stage < Len(stages)
          THEN /\ current_game_state' = READY
               /\ current_stage' = current_stage + 1
               /\ BallIsReset'
               /\ stats' = stats
          ELSE /\ current_game_state' = DROPPED
               /\ ball'.out_of_bounds
    /\ current_game_state = DROPPED =>
          /\ frame'.dispatched = DROPPED
          /\ stats'.lives = stats.lives - 1

C6_OutOfBoundsDrops == [][C6_OutOfBoundsStep]_vars

\* the ball went out of bounds in the frame that cleared the last stage
C6_Witness ==
    /\ frame.dispatched = RUNNING
    /\ frame.oob_marked
    /\ frame.cleared
    /\ frame.removed # 0
    /\ current_game_state = DROPPED

\* C7: from GAME_OVER or WIN, a frame without the restart key changes none of
\* the game state, score, lives, stage counter, brick field and ball, and
\* runs no ball update and no collision check, launch key or not.
C7_TerminalStep ==
    (current_game_state \in {GAME_OVER, WIN} /\ ~frame'.restart) =>
        /\ UNCHANGED <<current_game_state, stats, current_stage, bricks, ball>>
        /\ frame'.dispatched = current_game_state
        /\ frame'.tested = {} /\ frame'.removed = 0 /\ ~frame'.oob_marked

C7_TerminalStatesHold == [][C7_TerminalStep]_vars

\* a frame in WIN with the launch key pressed has run
C7_Witness ==
    /\ current_game_state = WIN
    /\ frame.dispatched = WIN
    /\ frame.launch
    /\ ~frame.restart

\* the fields of the game object, without the history of the frame
Game(g) == [g EXCEPT !.frame = NoFrame]

\* C8: the restart key in GAME_OVER or WIN gives score 0, the default lives,
\* stage 1 with exactly its bricks, a ball at rest with an empty trail and
\* not out of bounds, and READY; the frame ends in the state a newly
\* constructed game is in after its first READY update with the paddle at
\* the same place, whatever happened in the game before.
C8_RestartStep ==
    (current_game_state \in {GAME_OVER, WIN} /\ frame'.restart) =>
        /\ stats' = [score |-> 0, lives |-> DEFAULT_LIVES]
        /\ current_stage' = 1
        /\ bricks' = StageBricks(stages, 1)
        /\ ball'.speed_x = ZERO_SPEED /\ ball'.speed_y = ZERO_SPEED
        /\ ball'.trail = <<>>
        /\ ball'.out_of_bounds = FALSE
        /\ current_game_state' = READY
        /\ Game(Self') =
              Game(UpdateReady([Constructed(stages) EXCEPT !.paddle = paddle']))

C8_RestartReinitializes == [][C8_RestartStep]_vars

\* a game has been restarted
C8_Witness ==
    /\ frame.restart
    /\ frame.loads = <<0>>
    /\ current_game_state = READY

\* C9: a RUNNING frame deletes at most one brick, however many the ball
\* overlaps, and the brick field changes in no other way unless a stage is
\* loaded.
C9_BrickStep ==
    /\ frame'.loads = <<>> =>
          \/ bricks' = bricks
          \/ /\ frame'.dispatched = RUNNING
             /\ Len(bricks') = Len(bricks) - 1
             /\ \E i \in 1..Len(bricks) :
                   /\ \A k \in 1..(i - 1) : bricks'[k] = bricks[k]
                   /\ \A k \in i..Len(bricks') : bricks'[k] = bricks[k + 1]
    /\ (frame'.dispatched = RUNNING /\ frame'.cleared) => Len(bricks) <= 1

C9_OneBrickPerFrame == [][C9_BrickStep]_vars

\* the ball overlapped two bricks in one frame and one was deleted
C9_Witness ==
    /\ frame.dispatched = RUNNING
    /\ Cardinality(frame.overlap) >= 2
    /\ frame.removed # 0
    /\ bricks # <<>>

\* C10: of the bricks the ball overlaps, the one with the highest index is
\* deleted; the bricks before it are not tested and all other bricks keep
\* their order.
C10_HitStep ==
    (frame'.dispatched = RUNNING /\ frame'.overlap # {}) =>
        LET i == Max(frame'.overlap) IN
        /\ frame'.removed = i
        /\ frame'.tested = i..Len(bricks)
        /\ frame'.loads = <<>> =>
              /\ Len(bricks') = Len(bricks) - 1
              /\ \A k \in 1..(i - 1) : bricks'[k] = bricks[k]
              /\ \A k \in i..Len(bricks') : bricks'[k] = bricks[k + 1]

C10_LastBrickHitFirst == [][C10_HitStep]_vars

\* the ball overlapped every brick of a full stage and only the last one
\* was deleted
C10_Witness ==
    /\ frame.dispatched = RUNNING
    /\ Cardinality(frame.overlap) = MaxBricks
    /\ frame.removed = MaxBricks
    /\ Len(bricks) = MaxBricks - 1

\* C11: with the table of the two-stage scenario (one brick, then none), the
\* RUNNING frame in which the ball hits the single brick of stage 1 removes
\* it, leaves the field empty and ends in READY at stage 2 with the ball
\* reset; the frame of the next launch, the first RUNNING frame of stage 2,
\* ends in WIN with the stage still 2 and the field empty.
C11_ScenarioStep ==
    (stages = ScenarioTable /\ frame'.dispatched = RUNNING) =>
        /\ (current_stage = 1 /\ frame'.removed # 0) =>
              /\ frame'.removed = 1
              /\ Len(bricks) = 1
              /\ bricks' = <<>>
              /\ current_stage' = 2
              /\ current_game_state' = READY
              /\ BallIsReset'
        /\ (current_stage = 2 /\ current_game_state = READY) =>
              /\ frame'.launch
              /\ current_game_state' = WIN
              /\ current_stage' = 2
              /\ bricks' = <<>>

C11_TwoStageScenario == [][C11_ScenarioStep]_vars

\* the scenario was played to its end: the launch frame of stage 2 ended in WIN
C11_Witness ==
    /\ stages = ScenarioTable
    /\ current_game_state = WIN
    /\ current_stage = 2
    /\ frame.launch
    /\ frame.dispatched = RUNNING
    /\ frame.cleared
    /\ frame.removed = 0

\* C12: the launch indicator angle is within 0..180 degrees in every
\* reachable state.
C12_AngleInRange == angle \in 0..180

\* the sweep is at its upper end
C12_Witness ==
    /\ current_game_state = READY
    /\ angle = 180
    /\ frame.dispatched = READY

\* C13: while the game stays in READY the angle moves by 2 per update in
\* the current direction; the direction is -1 once the angle is 180 and +1
\* once it is 0 (a reset starts at 0 with +1), so the update after 180
\* gives 178 and the update after 0 gives 2; the angle is 180 again and
\* again and 0 again and again.
C13_SweepState ==
    /\ current_game_state = READY
    /\ angle \in {a \in 0..180 : a % 2 = 0}
    /\ angle_cycle_speed = 2
    /\ angle_direction \in {-1, 1}
    /\ angle = 180 => angle_direction = -1
    /\ angle = 0 => angle_direction = 1

C13_SweepStep ==
    /\ angle' = angle + 2 * angle_direction
    /\ angle_direction' = IF angle' = 180 THEN -1
                          ELSE IF angle' = 0 THEN 1 ELSE angle_direction
    /\ angle = 180 => angle' = 178
    /\ angle = 0 => angle' = 2

C13_Oscillates ==
    /\ []C13_SweepState
    /\ [][C13_SweepStep]_vars
    /\ []<>(angle = 180)
    /\ []<>(angle = 0 /\ frame.dispatched = READY)

\* the sweep has turned at 180 and is on its way down
C13_Witness ==
    /\ current_game_state = READY
    /\ angle = 178
    /\ angle_direction = -1

\* C14: whenever a launch press takes the game from READY to RUNNING, the
\* ball is on the paddle centre at the moment of the launch:
\* ball.x = paddle.x + paddle.w / 2 - ball.r, also in the first frame after
\* a ball reset.
C14_LaunchStep ==
    (current_game_state = READY /\ frame'.launch
        /\ frame'.dispatched = RUNNING) =>
        ball.x = paddle.x + (paddle.w \div 2) - BALL_R

C14_LaunchedFromPaddleCentre == [][C14_LaunchStep]_vars

\* C15 as stated: a launch at the angle 0, 90, 180 gives exactly the
\* velocity (2.5, 0), (0, -2.5), (-2.5, 0) and sets the state to RUNNING.
C15_ExactStep ==
    current_game_state = READY =>
        /\ current_game_state' = RUNNING
        /\ angle = 0 =>
              ball'.speed_x = LAUNCH_SPEED /\ ball'.speed_y = ZERO_SPEED
        /\ angle = 90 =>
              ball'.speed_x = ZERO_SPEED /\ ball'.speed_y = Neg(LAUNCH_SPEED)
        /\ angle = 180 =>
              ball'.speed_x = Neg(LAUNCH_SPEED) /\ ball'.speed_y = ZERO_SPEED

C15_LaunchVelocityExact == [][C15_ExactStep]_vars

\* v and w differ by at most 10^-15
Near(v, w) ==
    /\ v[1] - w[1] \in -1..1
    /\ (v[1] - w[1]) * 1000000000 + (v[2] - w[2]) \in -100..100

\* v <= 0, v >= 0
NonPositive(v) == v[1] <= 0 /\ v[2] <= 0
NonNegative(v) == v[1] >= 0 /\ v[2] >= 0

\* C15: a launch sets the state to RUNNING and leaves the angle, the position
\* of the ball and the rest of the game alone; the velocity is that of the
\* angle: (2.5, 0) at 0 exactly, (0, -2.5) at 90 and (-2.5, 0) at 180 to
\* within 10^-15; upwards or level at every angle, to the right below 90 and
\* to the left above; and the mirror image, to within 10^-15, of the
\* velocity at the mirrored angle.
C15_LaunchStep ==
    current_game_state = READY =>
        /\ current_game_state' = RUNNING
        /\ UNCHANGED <<angle, angle_direction, paddle, bricks, current_stage,
                       stats, stages>>
        /\ ball' = [ball EXCEPT !.speed_x = ball'.speed_x,
                                !.speed_y = ball'.speed_y]
        /\ angle = 0 =>
              ball'.speed_x = LAUNCH_SPEED /\ ball'.speed_y = ZERO_SPEED
        /\ angle = 90 =>
              /\ Near(ball'.speed_x, ZERO_SPEED)
              /\ ball'.speed_y = Neg(LAUNCH_SPEED)
        /\ angle = 180 =>
              /\ ball'.speed_x = Neg(LAUNCH_SPEED)
              /\ Near(ball'.speed_y, ZERO_SPEED)
        /\ NonPositive(ball'.speed_y)
        /\ angle < 90 => NonNegative(ball'.speed_x)
        /\ angle > 90 => NonPositive(ball'.speed_x)
        /\ Near(ball'.speed_x, Neg(CosTimesSpeed[((180 - angle) \div 2) + 1]))
        /\ Near(ball'.speed_y, NegSinTimesSpeed[((180 - angle) \div 2) + 1])

C15_LaunchVelocity == [][C15_LaunchStep]_vars

\* the ball was launched straight up
C15_Witness ==
    /\ current_game_state = RUNNING
    /\ angle = 90
    /\ ball.speed_y = Neg(LAUNCH_SPEED)
    /\ ball.speed_x # ZERO_SPEED

\* C16 as stated: every frame runs the update routine of the state the frame
\* started in.
C16_FrameRunsEntryState == [][frame'.dispatched = current_game_state]_vars

\* the states an update routine can leave the game in
UpdateTargets(st) ==
    CASE st = READY -> {READY}
      [] st = RUNNING -> {RUNNING, READY, DROPPED, WIN}
      [] st = DROPPED -> {READY, GAME_OVER}
      [] st = GAME_OVER -> {GAME_OVER}
      [] st = WIN -> {WIN}

\* C16: a frame runs the update routine of the state that input handling
\* leaves: RUNNING when the frame started in READY and the launch key was
\* pressed, READY when it started in GAME_OVER or WIN and the return key
\* was pressed, and the state the frame started in otherwise; after input
\* handling the state is changed only by that update routine.
C16_DispatchStep ==
    /\ frame'.dispatched =
          IF current_game_state = READY /\ frame'.launch THEN RUNNING
          ELSE IF current_game_state \in {GAME_OVER, WIN} /\ frame'.restart
               THEN READY
               ELSE current_game_state
    /\ current_game_state' \in UpdateTargets(frame'.dispatched)

C16_FrameRunsStateAfterInput == [][C16_DispatchStep]_vars

\* a frame that started in READY has run the RUNNING update
C16_Witness ==
    /\ frame.launch
    /\ frame.dispatched = RUNNING
    /\ current_game_state = RUNNING

\* C17: whenever the game state is READY the ball is not launched: both
\* components of its velocity are 0 and it is not out of bounds.
C17_ReadyBallAtRest ==
    current_game_state = READY =>
        /\ ball.speed_x = ZERO_SPEED
        /\ ball.speed_y = ZERO_SPEED
        /\ ball.out_of_bounds = FALSE

\* READY was entered by a stage advance in a frame whose move had taken the
\* ball out of bounds
C17_Witness ==
    /\ current_game_state = READY
    /\ current_stage > 1
    /\ frame.dispatched = RUNNING
    /\ frame.oob_marked
    /\ ball.speed_x = ZERO_SPEED

\* C18: in WIN the stage is the last one and the brick field is empty; in
\* GAME_OVER lives <= 0.  WIN is entered only by a RUNNING update that finds
\* the field of the last stage empty, GAME_OVER only by a DROPPED update
\* that takes the lives to 0 or below.
C18_TerminalState ==
    /\ current_game_state = WIN =>
          current_stage = Len(stages) /\ bricks = <<>>
    /\ current_game_state = GAME_OVER => stats.lives <= 0

C18_TerminalEntry ==
    /\ (current_game_state' = WIN /\ current_game_state # WIN) =>
          /\ frame'.dispatched = RUNNING
          /\ frame'.cleared
          /\ current_stage = Len(stages)
    /\ (current_game_state' = GAME_OVER /\ current_game_state # GAME_OVER) =>
          /\ frame'.dispatched = DROPPED
          /\ stats'.lives = stats.lives - 1
          /\ stats'.lives <= 0

C18_TerminalStatesOnlyAtEnd ==
    /\ []C18_TerminalState
    /\ [][C18_TerminalEntry]_vars

\* the game was won on a table of more than one stage and has stayed won
C18_Witness ==
    /\ current_game_state = WIN
    /\ Len(stages) > 1
    /\ current_stage = Len(stages)
    /\ frame.dispatched = WIN

\* C19: a frame that runs the DROPPED update leaves current_stage, the brick
\* field and the score as they were; current_stage changes only by +1 in a
\* RUNNING update that finds the field cleared and to 1 in a restart.
C19_StageStep ==
    /\ frame'.dispatched = DROPPED =>
          /\ current_stage' = current_stage
          /\ bricks' = bricks
          /\ stats'.score = stats.score
    /\ current_stage' # current_stage =>
          \/ /\ current_stage' = current_stage + 1
             /\ frame'.dispatched = RUNNING
             /\ frame'.cleared
          \/ /\ current_stage' = 1
             /\ frame'.restart
             /\ current_game_state \in {GAME_OVER, WIN}

C19_DropKeepsStageProgress == [][C19_StageStep]_vars

\* a life was lost with part of the stage's bricks removed
C19_Witness ==
    /\ frame.dispatched = DROPPED
    /\ current_game_state = GAME_OVER
    /\ bricks # <<>>
    /\ Len(bricks) < Len(stages[current_stage].bricks)

====
